---- MODULE Spec2Model ----
(***************************************************************************)
(* ts-strictify, src/main.ts: one call of strictify(args).                 *)
(*                                                                         *)
(* strictify is an async function.  Between two awaits its code runs to    *)
(* completion, so every action below is one such synchronous segment: the  *)
(* handler of one response of an external call (git merge-base, git        *)
(* status, git diff, tsc) or the continuation of a Promise.all join.       *)
(* Strings the code inspects character by character (file paths, compiler  *)
(* output) are sequences of one-character strings.                         *)
(***************************************************************************)
EXTENDS Integers, Sequences, FiniteSets, TLC

VARIABLES
    ignoreFilesChangedOnBranch, \* args.ignoreFilesChangedOnBranch
    pc,                   \* where strictify stands
    commit,               \* const commit (line 97)
    branchPc,             \* per ignore branch: position of its promise chain
    baseCommit,           \* per ignore branch: baseCommit (line 103)
    branchFiles,          \* per ignore branch: value its promise resolved with
    excludedFiles,        \* const excludedFiles (line 100)
    statusPc,             \* promise of findModifiedAndUntrackedFiles()
    statusFiles,          \* ... and the value it resolved with (a, line 113)
    diffPc,               \* promise of findFilesFromDiffToRevision(commit, 'HEAD')
    diffFiles,            \* ... and the value it resolved with (b, line 113)
    changedFiles,         \* const changedFiles (line 110)
    includedChangedFiles, \* const includedChangedFiles (line 120)
    tscOut,               \* const tscOut (line 124)
    result,               \* the values the promise of strictify resolved with
    error,                \* the value the promise of strictify rejected with
    trace,                \* callbacks invoked and external calls issued, in order
    responses             \* what each external call answered

vars == <<ignoreFilesChangedOnBranch, pc, commit, branchPc, baseCommit, branchFiles,
          excludedFiles, statusPc, statusFiles, diffPc, diffFiles, changedFiles,
          includedChangedFiles, tscOut, result, error, trace, responses>>

-----------------------------------------------------------------------------
(* Bounds and the small world the inputs are drawn from.                   *)

\* The total number of path entries git reports in one run, over all queries.
MaxFiles == 2

\* The number of lines of compiler output.
MaxLines == 2

Undefined == "undefined"
NoError == "none"
TargetBranch == "master"
\* The branches a caller can ask to ignore, in the order it names them.
BranchName == <<"b1", "b2">>
MaxBranches == Len(BranchName)

\* a.ts is a substring of a.tsx; c.js has no supported extension.
P_a_ts == <<"a", ".", "t", "s">>
P_a_tsx == <<"a", ".", "t", "s", "x">>
P_c_js == <<"c", ".", "j", "s">>
Paths == {P_a_ts, P_a_tsx, P_c_js}

NL == "\n"

\* A diagnostic of tsc starts with the path of its file: "a.ts(3,5): error ...".
LineFor(p) == p \o <<"(">>
LineSet == {LineFor(P_a_ts), LineFor(P_a_tsx)}

SeqsUpTo(S, n) == UNION {[1..k -> S] : k \in 0..n}

RECURSIVE Join(_)
Join(lines) ==
    IF Len(lines) = 0 THEN <<>>
    ELSE IF Len(lines) = 1 THEN lines[1]
    ELSE lines[1] \o <<NL>> \o Join(Tail(lines))

\* The texts the compiler can have written (stdout and stderr interleaved).
Outputs == {Join(ls) : ls \in SeqsUpTo(LineSet, MaxLines)}
\* The texts of a failure other than diagnostics: nothing, or one line.  The
\* code does not read the kind of a failure, so the longer texts are covered
\* by the diagnostics.
OtherOutputs == {Join(ls) : ls \in SeqsUpTo(LineSet, 1)}

-----------------------------------------------------------------------------
(* The pure functions of main.ts.                                          *)

\* String.prototype.endsWith, as the anchored regular expression needs it.
EndsWith(s, suffix) ==
    /\ Len(s) >= Len(suffix)
    /\ SubSeq(s, Len(s) - Len(suffix) + 1, Len(s)) = suffix

\* Line 4: Boolean(fileName.match(/\.tsx?$/)).
isSupportedExtension(fileName) ==
    \/ EndsWith(fileName, <<".", "t", "s">>)
    \/ EndsWith(fileName, <<".", "t", "s", "x">>)

\* Array.prototype.includes.
ArrayIncludes(array, x) == \E i \in 1..Len(array) : array[i] = x

\* String.prototype.includes (line 129): fileName occurs in line.
StringIncludes(line, fileName) ==
    \E i \in 0..(Len(line) - Len(fileName)) :
        SubSeq(line, i + 1, i + Len(fileName)) = fileName

RECURSIVE IndexOf(_, _, _)
IndexOf(s, c, from) ==
    IF from > Len(s) THEN 0
    ELSE IF s[from] = c THEN from
    ELSE IndexOf(s, c, from + 1)

RECURSIVE Split(_)
\* Line 56: all.split('\n'); the empty string splits into one empty line.
Split(s) ==
    LET i == IndexOf(s, NL, 1) IN
    IF i = 0 THEN <<s>>
    ELSE <<SubSeq(s, 1, i - 1)>> \o Split(SubSeq(s, i + 1, Len(s)))

\* Keeps every occurrence.
Dedupe_Keep(array) == array

RECURSIVE Dedupe(_)
\* Line 113: Array.from(new Set(array)); a Set keeps the first insertion of a value.
Dedupe(array) ==
    IF Len(array) = 0 THEN <<>>
    ELSE LET front == Dedupe(SubSeq(array, 1, Len(array) - 1))
             last == array[Len(array)]
         IN IF ArrayIncludes(front, last) THEN front ELSE Append(front, last)

\* Array.prototype.filter(isSupportedExtension).
FilterSupported(array) == SelectSeq(array, isSupportedExtension)

\* Puts the files of the diff before those of the working tree.
CombineChangedFiles_DiffFirst(a, b) == FilterSupported(Dedupe(b \o a))

\* Line 113: ([a, b]) => Array.from(new Set([...a, ...b])).filter(isSupportedExtension).
CombineChangedFiles(a, b) == FilterSupported(Dedupe(a \o b))

\* Line 23: ({created, modified, not_added}) => [...created, ...modified, ...not_added].
StatusToFiles(status) == status.created \o status.modified \o status.not_added

RECURSIVE ConcatFrom(_, _, _)
ConcatFrom(arrays, k, accumulator) ==
    IF k > Len(arrays) THEN accumulator
    ELSE ConcatFrom(arrays, k + 1, accumulator \o arrays[k])

\* Lines 106-108: reduce((accumulator, currentValue) => accumulator.concat(currentValue))
\* without an initial value: the first element seeds the accumulator.  The
\* caller decides what happens on an empty array (ReduceThrows).
ReduceConcat(arrays) == ConcatFrom(arrays, 2, arrays[1])

\* Array.prototype.reduce without an initial value throws a TypeError on an
\* empty array (lines 106-108).
ReduceThrows(arrays) == Len(arrays) = 0

\* Keeps every changed file.
IncludedFiles_All(changed, excluded) == changed

\* Lines 120-122: changedFiles.filter((f) => !excludedFiles.includes(f)).
IncludedFiles(changed, excluded) ==
    LET keep(f) == ~ArrayIncludes(excluded, f) IN SelectSeq(changed, keep)

-----------------------------------------------------------------------------
(* Events of the trace: callbacks invoked and external calls issued.       *)

Event(name, id, args) == [ev |-> name, id |-> id, args |-> args]

OnFoundSinceRevision(revision) == Event("onFoundSinceRevision", 0, <<revision>>)
OnFoundChangedFiles(files) == Event("onFoundChangedFiles", 0, <<files>>)
OnCheckFile(file, hasErrors) == Event("onCheckFile", 0, <<file, hasErrors>>)

\* execa('git', ['merge-base', '--fork-point', targetBranch, branch]) (line 10);
\* id 0 is the lookup for HEAD, id i the one for the i-th ignore branch.
ForkQuery(id, branch) == Event("merge-base", id, <<TargetBranch, branch>>)
\* Diffs against the fork point of HEAD instead of the base it was given.
DiffQuery_HeadBase(id, baseRevision, childRevision) ==
    Event("diffSummary", id, <<commit, childRevision>>)

\* simpleGit().diffSummary([baseRevision, childRevision]) (line 38).
DiffQuery(id, baseRevision, childRevision) ==
    Event("diffSummary", id, <<baseRevision, childRevision>>)
\* simpleGit().status() (line 22).
StatusQuery == Event("status", 0, <<>>)
\* execa('tsc', args) (line 53).
TscQuery == Event("tsc", 0, <<>>)

QueryKinds == {"merge-base", "diffSummary", "status", "tsc"}
Queries == QueryKinds \X (0..MaxBranches)

NoResponse == [tag |-> "none", val |-> <<>>]
Failed == [tag |-> "failed", val |-> <<>>]
Ok(v) == [tag |-> "ok", val |-> v]

-----------------------------------------------------------------------------
(* Lines 126-138: the correlation of compiler output and included files.   *)

\* The state of the two nested loops: totalErrorCount, the inner errorCount
\* and the onCheckFile calls made so far.
LoopState(total, count, calls) ==
    [totalErrorCount |-> total, errorCount |-> count, calls |-> calls]

\* Counts a line whether or not it names the file.
MatchLine_Always(st, line, fileName) ==
    LoopState(st.totalErrorCount + 1, st.errorCount + 1,
              IF st.errorCount = 0 THEN Append(st.calls, OnCheckFile(fileName, TRUE))
              ELSE st.calls)

\* Counts a file at most once.
MatchLine_Once(st, line, fileName) ==
    IF StringIncludes(line, fileName) /\ st.errorCount = 0
    THEN LoopState(st.totalErrorCount + 1, st.errorCount + 1,
                   Append(st.calls, OnCheckFile(fileName, TRUE)))
    ELSE st

\* Notifies on every matching line.
MatchLine_NotifyEach(st, line, fileName) ==
    IF StringIncludes(line, fileName)
    THEN LoopState(st.totalErrorCount + 1, st.errorCount + 1,
                   Append(st.calls, OnCheckFile(fileName, TRUE)))
    ELSE st

\* Notifies the caller but leaves the total as it is.
MatchLine_NoCount(st, line, fileName) ==
    IF StringIncludes(line, fileName)
    THEN LoopState(st.totalErrorCount, st.errorCount + 1,
                   IF st.errorCount = 0
                   THEN Append(st.calls, OnCheckFile(fileName, TRUE))
                   ELSE st.calls)
    ELSE st

\* Lines 128-135: the callback of tscOut.map for one line.
MatchLine(st, line, fileName) ==
    IF StringIncludes(line, fileName)
    THEN LoopState(st.totalErrorCount + 1, st.errorCount + 1,
                   IF st.errorCount = 0
                   THEN Append(st.calls, OnCheckFile(fileName, TRUE))
                   ELSE st.calls)
    ELSE st

RECURSIVE MapLines(_, _, _, _)
\* Line 128: tscOut.map(...), line k onwards.
MapLines(st, lines, k, fileName) ==
    IF k > Len(lines) THEN st
    ELSE MapLines(MatchLine(st, lines[k], fileName), lines, k + 1, fileName)

\* Announces the file through onExamineFile before it is checked.
CheckFile_Examines(st, lines, fileName) ==
    LET after == MapLines(LoopState(st.totalErrorCount, 0,
                                    Append(st.calls, Event("onExamineFile", 0, <<fileName>>))),
                          lines, 1, fileName)
    IN IF after.errorCount = 0
       THEN LoopState(after.totalErrorCount, 0,
                      Append(after.calls, OnCheckFile(fileName, FALSE)))
       ELSE after

\* Lines 126-137: the reducer for one file; errorCount starts at 0 and a file
\* without a matching line is notified with false.
CheckFile(st, lines, fileName) ==
    LET after == MapLines(LoopState(st.totalErrorCount, 0, st.calls), lines, 1, fileName)
    IN IF after.errorCount = 0
       THEN LoopState(after.totalErrorCount, 0,
                      Append(after.calls, OnCheckFile(fileName, FALSE)))
       ELSE after

RECURSIVE ReduceFiles(_, _, _, _)
\* Line 126: includedChangedFiles.reduce(..., 0), file k onwards.
ReduceFiles(st, files, k, lines) ==
    IF k > Len(files) THEN st
    ELSE ReduceFiles(CheckFile(st, lines, files[k]), files, k + 1, lines)

Correlate(files, lines) == ReduceFiles(LoopState(0, 0, <<>>), files, 1, lines)

\* Reports success whatever the count.
FinalResult_AlwaysSuccess(errorCount) == [success |-> TRUE, errors |-> errorCount]

\* Lines 140-143.
FinalResult(errorCount) == [success |-> errorCount = 0, errors |-> errorCount]

\* Line 117.
ShortCircuitResult == [success |-> TRUE, errors |-> 0]

\* Never short-circuits.
ShortCircuit_Never(changed) == FALSE

\* Also returns early for a single changed file.
ShortCircuit_AtMostOne(changed) == Len(changed) <= 1

\* Line 116: changedFiles.length === 0.
ShortCircuit(changed) == Len(changed) = 0

-----------------------------------------------------------------------------
(* What the external calls can answer.                                     *)

N == Len(ignoreFilesChangedOnBranch)

\* git merge-base prints the fork point of the branch or fails.
ForkPointOf(branch) ==
    [HEAD |-> "fp-HEAD", b1 |-> "fp-b1", b2 |-> "fp-b2"][branch]
ForkResponses(branch) == {Failed, Ok(ForkPointOf(branch))}

RECURSIVE DiffEntries(_)
DiffEntries(i) ==
    IF i < 0 THEN 0
    ELSE DiffEntries(i - 1) +
         (IF responses[<<"diffSummary", i>>].tag = "ok"
          THEN Len(responses[<<"diffSummary", i>>].val) ELSE 0)

\* The path entries git has reported so far in this run.
UsedFiles ==
    DiffEntries(MaxBranches) +
    (IF responses[<<"status", 0>>].tag = "ok"
     THEN Len(StatusToFiles(responses[<<"status", 0>>].val)) ELSE 0)

\* DiffResult of simple-git reduced to the file names (line 39).
DiffResponses == {Failed} \cup {Ok(files) : files \in SeqsUpTo(Paths, MaxFiles - UsedFiles)}

\* StatusResult of simple-git reduced to the three lists line 23 reads.
StatusResponses ==
    {Failed} \cup
    {Ok([created |-> c, modified |-> m, not_added |-> u]) :
        <<c, m, u>> \in {t \in SeqsUpTo(Paths, MaxFiles - UsedFiles)
                                \X SeqsUpTo(Paths, MaxFiles - UsedFiles)
                                \X SeqsUpTo(Paths, MaxFiles - UsedFiles) :
                            Len(t[1]) + Len(t[2]) + Len(t[3]) <= MaxFiles - UsedFiles}}

\* execa resolves when tsc exits with 0 and rejects otherwise.  tsc exits
\* with a non-zero code when it reports diagnostics ("diagnostics"); every
\* other failure (tsc missing, a crash) is "other".  error.all is the
\* interleaved output; on a failure other than diagnostics the build decides
\* whether error.all is a string at all.
TscError(kind, hasAll, all) == [kind |-> kind, hasAll |-> hasAll, all |-> all]
TscResponses ==
    {Ok(<<>>)} \cup
    {[tag |-> "failed", val |-> TscError("diagnostics", TRUE, s)] : s \in Outputs} \cup
    {[tag |-> "failed", val |-> TscError("other", TRUE, s)] : s \in OtherOutputs} \cup
    {[tag |-> "failed", val |-> TscError("other", FALSE, <<>>)]}

-----------------------------------------------------------------------------
(* The run.                                                                *)

Init ==
    /\ ignoreFilesChangedOnBranch \in {[i \in 1..n |-> BranchName[i]] : n \in 0..MaxBranches}
    /\ pc = "start"
    /\ commit = Undefined
    /\ branchPc = [i \in 1..N |-> "idle"]
    /\ baseCommit = [i \in 1..N |-> Undefined]
    /\ branchFiles = [i \in 1..N |-> <<>>]
    /\ excludedFiles = <<>>
    /\ statusPc = "idle"
    /\ statusFiles = <<>>
    /\ diffPc = "idle"
    /\ diffFiles = <<>>
    /\ changedFiles = <<>>
    /\ includedChangedFiles = <<>>
    /\ tscOut = <<>>
    /\ result = <<>>
    /\ error = NoError
    /\ trace = <<>>
    /\ responses = [q \in Queries |-> NoResponse]

\* Lines 87-97: the call of strictify up to its first await: the fork point
\* of HEAD is looked up.
Strictify ==
    /\ pc = "start"
    /\ pc' = "forkHEAD"
    /\ trace' = Append(trace, ForkQuery(0, "HEAD"))
    /\ UNCHANGED <<ignoreFilesChangedOnBranch, commit, branchPc, baseCommit, branchFiles,
                   excludedFiles, statusPc, statusFiles, diffPc, diffFiles, changedFiles,
                   includedChangedFiles, tscOut, result, error, responses>>

\* Asks git for the diff also when the base is undefined.
DiffIsSkipped_Never(baseRevision) == FALSE

\* Lines 34-36: findFilesFromDiffToRevision returns [] without asking git
\* when baseRevision === undefined.
DiffIsSkipped(baseRevision) == baseRevision = Undefined

\* Lines 11-12: .then((response) => response.stdout).catch(() => undefined).
ForkPointValue(r) == IF r.tag = "ok" THEN r.val ELSE Undefined

\* Reports the revision after the lookups of the ignore branches have started.
ResolveRevisionEvents_QueriesFirst(revision) ==
    [i \in 1..N |-> ForkQuery(i, ignoreFilesChangedOnBranch[i])]
        \o <<OnFoundSinceRevision(revision)>>

\* Starts git status together with the lookups of the ignore branches.
ResolveRevisionEvents_StartsStatus(revision) ==
    <<OnFoundSinceRevision(revision)>>
        \o [i \in 1..N |-> ForkQuery(i, ignoreFilesChangedOnBranch[i])]
        \o <<StatusQuery>>

\* Lines 98-105: onFoundSinceRevision(commit), then map calls
\* findCommitAtWhichBranchForkedFromTargetBranch for every ignore branch.
ResolveRevisionEvents(revision) ==
    <<OnFoundSinceRevision(revision)>>
        \o [i \in 1..N |-> ForkQuery(i, ignoreFilesChangedOnBranch[i])]

\* Lines 97-105: the lookup for HEAD answers; onFoundSinceRevision is called
\* and map starts the lookup of every ignore branch.
ForkPointHEADResponse ==
    /\ pc = "forkHEAD"
    /\ \E r \in ForkResponses("HEAD") :
        /\ responses' = [responses EXCEPT ![<<"merge-base", 0>>] = r]
        /\ commit' = ForkPointValue(r)
        /\ trace' = trace \o ResolveRevisionEvents(ForkPointValue(r))
    /\ branchPc' = [i \in 1..N |-> "fork"]
    /\ pc' = "exclusions"
    /\ UNCHANGED <<ignoreFilesChangedOnBranch, baseCommit, branchFiles, excludedFiles,
                   statusPc, statusFiles, diffPc, diffFiles, changedFiles,
                   includedChangedFiles, tscOut, result, error>>

\* Lines 102-103 and 34-38: the lookup of ignore branch i answers and
\* findFilesFromDiffToRevision(baseCommit, branch) starts: without a base it
\* resolves with [] at once, otherwise it asks git for the diff.
BranchForkResponse(i) ==
    /\ pc = "exclusions"
    /\ branchPc[i] = "fork"
    /\ \E r \in ForkResponses(ignoreFilesChangedOnBranch[i]) :
        /\ responses' = [responses EXCEPT ![<<"merge-base", i>>] = r]
        /\ baseCommit' = [baseCommit EXCEPT ![i] = ForkPointValue(r)]
        /\ IF DiffIsSkipped(ForkPointValue(r))
           THEN /\ branchPc' = [branchPc EXCEPT ![i] = "done"]
                /\ branchFiles' = [branchFiles EXCEPT ![i] = <<>>]
                /\ trace' = trace
           ELSE /\ branchPc' = [branchPc EXCEPT ![i] = "diff"]
                /\ branchFiles' = branchFiles
                /\ trace' = Append(trace, DiffQuery(i, ForkPointValue(r),
                                                    ignoreFilesChangedOnBranch[i]))
    /\ UNCHANGED <<ignoreFilesChangedOnBranch, pc, commit, excludedFiles, statusPc,
                   statusFiles, diffPc, diffFiles, changedFiles, includedChangedFiles,
                   tscOut, result, error>>

\* Lines 39-43: the files of a diff summary, [] when the query failed.
DiffValue(r) == IF r.tag = "ok" THEN r.val ELSE <<>>

\* Lines 38-43: the diff of ignore branch i answers.
BranchDiffResponse(i) ==
    /\ pc = "exclusions"
    /\ branchPc[i] = "diff"
    /\ \E r \in DiffResponses :
        /\ responses' = [responses EXCEPT ![<<"diffSummary", i>>] = r]
        /\ branchFiles' = [branchFiles EXCEPT ![i] = DiffValue(r)]
    /\ branchPc' = [branchPc EXCEPT ![i] = "done"]
    /\ UNCHANGED <<ignoreFilesChangedOnBranch, pc, commit, baseCommit, excludedFiles,
                   statusPc, statusFiles, diffPc, diffFiles, changedFiles,
                   includedChangedFiles, tscOut, result, error, trace>>

\* Lines 100-112: Promise.all of the ignore branches has resolved; reduce
\* concatenates their files (and throws on an empty array, which rejects the
\* promise of strictify); then the two change-set queries start, the diff
\* only when commit is known (line 34).
JoinExclusions ==
    /\ pc = "exclusions"
    /\ \A i \in 1..N : branchPc[i] = "done"
    /\ IF ReduceThrows(branchFiles)
       THEN /\ pc' = "rejected"
            /\ error' = "TypeError: Reduce of empty array with no initial value"
            /\ UNCHANGED <<excludedFiles, statusPc, diffPc, trace>>
       ELSE /\ pc' = "changes"
            /\ excludedFiles' = ReduceConcat(branchFiles)
            /\ statusPc' = "wait"
            /\ diffPc' = IF DiffIsSkipped(commit) THEN "done" ELSE "wait"
            /\ trace' = trace \o <<StatusQuery>>
                              \o (IF DiffIsSkipped(commit) THEN <<>>
                                  ELSE <<DiffQuery(0, commit, "HEAD")>>)
            /\ error' = error
    /\ UNCHANGED <<ignoreFilesChangedOnBranch, commit, branchPc, baseCommit, branchFiles,
                   statusFiles, diffFiles, changedFiles, includedChangedFiles, tscOut,
                   result, responses>>

\* Lines 23-27: the files of a status, [] when the query failed.
StatusValue(r) == IF r.tag = "ok" THEN StatusToFiles(r.val) ELSE <<>>

\* Collects the files in the order the two queries answer.
StatusResponse_Race ==
    /\ pc = "changes"
    /\ statusPc = "wait"
    /\ \E r \in StatusResponses :
        /\ responses' = [responses EXCEPT ![<<"status", 0>>] = r]
        /\ statusFiles' = IF diffPc = "done" THEN <<>> ELSE StatusValue(r)
        /\ diffFiles' = IF diffPc = "done" THEN diffFiles \o StatusValue(r) ELSE diffFiles
    /\ statusPc' = "done"
    /\ UNCHANGED <<ignoreFilesChangedOnBranch, pc, commit, branchPc, baseCommit,
                   branchFiles, excludedFiles, diffPc, changedFiles,
                   includedChangedFiles, tscOut, result, error, trace>>

\* Asks git again when the status query failed.
StatusResponse_Retry ==
    /\ pc = "changes"
    /\ statusPc = "wait"
    /\ \E r \in StatusResponses :
        /\ responses' = [responses EXCEPT ![<<"status", 0>>] = r]
        /\ statusFiles' = StatusValue(r)
        /\ LET isStatus(e) == e.ev = "status"
               again == r.tag = "failed" /\ Len(SelectSeq(trace, isStatus)) < 2
           IN /\ statusPc' = IF again THEN "wait" ELSE "done"
              /\ trace' = IF again THEN Append(trace, StatusQuery) ELSE trace
    /\ UNCHANGED <<ignoreFilesChangedOnBranch, pc, commit, branchPc, baseCommit,
                   branchFiles, excludedFiles, diffPc, diffFiles, changedFiles,
                   includedChangedFiles, tscOut, result, error>>

\* Lines 21-27: git status answers.
StatusResponse ==
    /\ pc = "changes"
    /\ statusPc = "wait"
    /\ \E r \in StatusResponses :
        /\ responses' = [responses EXCEPT ![<<"status", 0>>] = r]
        /\ statusFiles' = StatusValue(r)
    /\ statusPc' = "done"
    /\ UNCHANGED <<ignoreFilesChangedOnBranch, pc, commit, branchPc, baseCommit,
                   branchFiles, excludedFiles, diffPc, diffFiles, changedFiles,
                   includedChangedFiles, tscOut, result, error, trace>>

\* Lines 37-43: the diff of HEAD against commit answers.
DiffHEADResponse ==
    /\ pc = "changes"
    /\ diffPc = "wait"
    /\ \E r \in DiffResponses :
        /\ responses' = [responses EXCEPT ![<<"diffSummary", 0>>] = r]
        /\ diffFiles' = DiffValue(r)
    /\ diffPc' = "done"
    /\ UNCHANGED <<ignoreFilesChangedOnBranch, pc, commit, branchPc, baseCommit,
                   branchFiles, excludedFiles, statusPc, statusFiles, changedFiles,
                   includedChangedFiles, tscOut, result, error, trace>>

\* Lines 110-124: Promise.all of the two change-set queries has resolved;
\* the changed files are reported, an empty list ends the run, otherwise the
\* included files are selected and tsc is started.
JoinChangeSet ==
    /\ pc = "changes"
    /\ statusPc = "done"
    /\ diffPc = "done"
    /\ changedFiles' = CombineChangedFiles(statusFiles, diffFiles)
    /\ IF ShortCircuit(changedFiles')
       THEN /\ pc' = "returned"
            /\ result' = Append(result, ShortCircuitResult)
            /\ trace' = Append(trace, OnFoundChangedFiles(changedFiles'))
            /\ includedChangedFiles' = includedChangedFiles
       ELSE /\ pc' = "compile"
            /\ result' = result
            /\ includedChangedFiles' = IncludedFiles(changedFiles', excludedFiles)
            /\ trace' = trace \o <<OnFoundChangedFiles(changedFiles'), TscQuery>>
    /\ UNCHANGED <<ignoreFilesChangedOnBranch, commit, branchPc, baseCommit, branchFiles,
                   excludedFiles, statusPc, statusFiles, diffPc, diffFiles, tscOut,
                   error, responses>>

\* Lines 51-58: the catch block reads error.all and splits it; a resolved
\* call leaves tscOutput empty.
TscThrows(r) == r.tag = "failed" /\ ~r.val.hasAll
TscOutput(r) == IF r.tag = "ok" THEN <<>> ELSE Split(r.val.all)

\* Lines 53-58 and 124-143: tsc has exited.  Reading split of an undefined
\* error.all throws inside the catch block and rejects the promise of
\* strictify; otherwise the output is correlated with the included files,
\* onCheckFile is called for each of them and the result is returned.
TscResponse ==
    /\ pc = "compile"
    /\ \E r \in TscResponses :
        /\ responses' = [responses EXCEPT ![<<"tsc", 0>>] = r]
        /\ IF TscThrows(r)
           THEN /\ pc' = "rejected"
                /\ error' = "TypeError: Cannot read property 'split' of undefined"
                /\ UNCHANGED <<tscOut, result, trace>>
           ELSE /\ pc' = "returned"
                /\ tscOut' = TscOutput(r)
                /\ trace' = trace \o Correlate(includedChangedFiles, tscOut').calls
                /\ result' = Append(result,
                        FinalResult(Correlate(includedChangedFiles, tscOut').totalErrorCount))
                /\ error' = error
    /\ UNCHANGED <<ignoreFilesChangedOnBranch, commit, branchPc, baseCommit, branchFiles,
                   excludedFiles, statusPc, statusFiles, diffPc, diffFiles, changedFiles,
                   includedChangedFiles>>

Next ==
    \/ Strictify
    \/ ForkPointHEADResponse
    \/ \E i \in 1..N : BranchForkResponse(i)
    \/ \E i \in 1..N : BranchDiffResponse(i)
    \/ JoinExclusions
    \/ StatusResponse
    \/ DiffHEADResponse
    \/ JoinChangeSet
    \/ TscResponse

Spec == Init /\ [][Next]_vars

-----------------------------------------------------------------------------
(* The vocabulary of the properties: what a caller and the external tools  *)
(* observe of a run, stated without the program's own variables where the  *)
(* property is about what git and tsc answered.                            *)

Range(seq) == {seq[i] : i \in 1..Len(seq)}

EventsOf(name) == LET is(e) == e.ev = name IN SelectSeq(trace, is)
PositionsOf(name) == {i \in 1..Len(trace) : trace[i].ev = name}

\* The list handed to onFoundChangedFiles.
Emitted == EventsOf("onFoundChangedFiles")[1].args[1]
HasEmitted == Len(EventsOf("onFoundChangedFiles")) > 0
ChangeSet == Range(Emitted)

\* The onCheckFile calls, in order.
CheckCalls == EventsOf("onCheckFile")
CheckedFiles == {CheckCalls[i].args[1] : i \in 1..Len(CheckCalls)}

\* diffFiles(forkPoint(B, targetBranch), B) for the i-th ignore branch, from
\* what git answered: empty without a fork point or without a diff.
BranchDiffSet(i) ==
    IF /\ responses[<<"merge-base", i>>].tag = "ok"
       /\ responses[<<"diffSummary", i>>].tag = "ok"
    THEN Range(responses[<<"diffSummary", i>>].val)
    ELSE {}
ExclusionSet == UNION {BranchDiffSet(i) : i \in 1..N}
IncludedSet == ChangeSet \ ExclusionSet

\* The run returned from line 117.
ReturnedShort == pc = "returned" /\ responses[<<"tsc", 0>>].tag = "none"
\* The run returned from line 140, after the compiler stage.
ReturnedFinal == pc = "returned" /\ responses[<<"tsc", 0>>].tag # "none"

\* line contains file as a substring.
IsSubstring(file, line) ==
    \E from \in 1..(Len(line) - Len(file) + 1) :
        \A k \in 1..Len(file) : line[from + k - 1] = file[k]

CountFor(file, lines) == Cardinality({k \in 1..Len(lines) : IsSubstring(file, lines[k])})

RECURSIVE SumCounts(_, _)
SumCounts(files, lines) ==
    IF files = {} THEN 0
    ELSE LET f == CHOOSE x \in files : TRUE
         IN CountFor(f, lines) + SumCounts(files \ {f}, lines)

\* The path ends in .ts or .tsx.
IsTypeScriptPath(path) ==
    LET n == Len(path) IN
    \/ n >= 3 /\ path[n - 2] = "." /\ path[n - 1] = "t" /\ path[n] = "s"
    \/ n >= 4 /\ path[n - 3] = "." /\ path[n - 2] = "t" /\ path[n - 1] = "s" /\ path[n] = "x"

-----------------------------------------------------------------------------
\* C1: with an empty ignore-branch list the run never rejects while computing
\* exclusions; the exclusion set is empty and the run goes on to report the
\* changed files.
C1_EmptyIgnoreListNeverRejects ==
    N = 0 => /\ pc # "rejected"
             /\ excludedFiles = <<>>
             /\ (pc \notin {"start", "forkHEAD", "exclusions"} => HasEmitted)

\* C2: a run that returns after the compiler stage returns as errors the sum,
\* over the files of changeSet minus exclusionSet, of the number of
\* diagnostic lines that contain the file's path.
C2_ErrorsIsSumOfMatches ==
    ReturnedFinal => result[1].errors = SumCounts(IncludedSet, tscOut)

\* One diagnostic line names two included files and counts twice.
C2_Witness ==
    /\ ReturnedFinal
    /\ Len(tscOut) = 1
    /\ Cardinality(IncludedSet) = 2
    /\ result[1].errors = 2

\* C3: every returned result has success = (errors = 0) and errors >= 0, on
\* the short-circuit return and on the final return.
C3_SuccessIffNoErrors ==
    /\ Len(result) <= 1
    /\ pc = "returned" <=> Len(result) = 1
    /\ \A k \in 1..Len(result) :
        /\ result[k].success <=> result[k].errors = 0
        /\ result[k].errors >= 0

C3_Witness == ReturnedFinal /\ result[1].errors > 0 /\ ~result[1].success

\* C4: onCheckFile is invoked for exactly the files of changeSet minus
\* exclusionSet: never for a file of the exclusion set, never for a file
\* outside the reported change set, and for every other file once the run has
\* returned.
C4_CheckedIsChangedMinusExcluded ==
    /\ CheckedFiles # {} => HasEmitted
    /\ HasEmitted => /\ CheckedFiles \subseteq ChangeSet
                     /\ CheckedFiles \cap ExclusionSet = {}
    /\ pc = "returned" => CheckedFiles = IncludedSet

\* A changed file is excluded and the run has returned after compiling.
C4_Witness == ReturnedFinal /\ ChangeSet \cap ExclusionSet # {}

\* The diagnostic line was emitted for the file: it starts with its path.
IsLineOf(path, line) ==
    /\ Len(line) >= Len(LineFor(path))
    /\ SubSeq(line, 1, Len(LineFor(path))) = LineFor(path)

\* The result and the flags the caller would see had tsc written `lines`.
OutcomeIs(lines) ==
    /\ result[1].errors = SumCounts(IncludedSet, lines)
    /\ result[1].success <=> SumCounts(IncludedSet, lines) = 0
    /\ \A i \in 1..Len(CheckCalls) :
        CheckCalls[i].args[2] <=> CountFor(CheckCalls[i].args[1], lines) > 0

\* C5 as stated: the diagnostic lines emitted for a file that is not
\* included can be removed from the compiler output without changing errors,
\* success or any onCheckFile flag, also when one path is a substring of
\* another.
C5_LinesOfOtherFilesNeverCount ==
    ReturnedFinal =>
        LET foreign(line) == \E p \in Paths \ IncludedSet : IsLineOf(p, line)
            kept(line) == ~foreign(line)
        IN OutcomeIs(SelectSeq(tscOut, kept))

\* C5, amended: the diagnostic lines that contain no included file's path
\* can be removed from the compiler output without changing errors, success
\* or any onCheckFile flag; a line emitted for another file counts exactly
\* when its text contains the path of an included file.
C5_LinesWithoutIncludedPathNeverCount ==
    ReturnedFinal =>
        LET kept(line) == \E p \in IncludedSet : IsSubstring(p, line)
        IN OutcomeIs(SelectSeq(tscOut, kept))

\* tsc reported a diagnostic for a file that is not included, in a line that
\* contains no included path, next to a diagnostic that counts.
C5_Witness ==
    /\ ReturnedFinal
    /\ result[1].errors = 1
    /\ \E k \in 1..Len(tscOut) :
        /\ \E p \in Paths \ IncludedSet : IsLineOf(p, tscOut[k])
        /\ \A p \in IncludedSet : ~IsSubstring(p, tscOut[k])

\* C6: in a run that completes the compiler stage onCheckFile is invoked
\* exactly once per included file, in the order of the list handed to
\* onFoundChangedFiles, with hasErrors = (some diagnostic line contains the
\* path); after a normal exit of the compiler every flag is false and the
\* result is {success: true, errors: 0}.
C6_OneCheckPerIncludedFileInOrder ==
    ReturnedFinal =>
        LET included(f) == f \notin ExclusionSet
            expected == SelectSeq(Emitted, included)
        IN /\ Len(CheckCalls) = Len(expected)
           /\ \A i \in 1..Len(CheckCalls) :
                /\ CheckCalls[i].args[1] = expected[i]
                /\ CheckCalls[i].args[2] <=>
                       \E k \in 1..Len(tscOut) : IsSubstring(expected[i], tscOut[k])
           /\ \A f \in IncludedSet :
                Cardinality({i \in 1..Len(CheckCalls) : CheckCalls[i].args[1] = f}) = 1
           /\ responses[<<"tsc", 0>>].tag = "ok" =>
                /\ \A i \in 1..Len(CheckCalls) : ~CheckCalls[i].args[2]
                /\ result[1] = [success |-> TRUE, errors |-> 0]

\* Two included files, the first with diagnostics on two lines, the second
\* with none.
C6_Witness ==
    /\ ReturnedFinal
    /\ Len(CheckCalls) = 2
    /\ CheckCalls[1].args[2]
    /\ ~CheckCalls[2].args[2]
    /\ result[1].errors = 2

\* C7: the callbacks fire in a fixed order.  onFoundSinceRevision is invoked
\* exactly once, with the fork point of HEAD (undefined when the lookup
\* failed), before any exclusion or change-set query is issued;
\* onFoundChangedFiles at most once and after it; every onCheckFile after
\* onFoundChangedFiles and after the compiler has finished.
C7_CallbackOrder ==
    LET since == PositionsOf("onFoundSinceRevision")
        changed == PositionsOf("onFoundChangedFiles")
        queries == {j \in 1..Len(trace) :
                        \/ trace[j].ev = "merge-base" /\ trace[j].id >= 1
                        \/ trace[j].ev \in {"diffSummary", "status"}}
        headForkPoint == IF responses[<<"merge-base", 0>>].tag = "ok"
                         THEN responses[<<"merge-base", 0>>].val ELSE Undefined
    IN /\ Cardinality(since) = IF pc \in {"start", "forkHEAD"} THEN 0 ELSE 1
       /\ \A i \in since : /\ trace[i].args[1] = headForkPoint
                           /\ \A j \in queries : i < j
       /\ Cardinality(changed) <= 1
       /\ \A j \in changed : \E i \in since : i < j
       /\ \A k \in PositionsOf("onCheckFile") :
            /\ \E j \in changed : j < k
            /\ \E t \in PositionsOf("tsc") : t < k
            /\ responses[<<"tsc", 0>>].tag # "none"

\* The fork point of HEAD is unknown, an ignore branch was queried and a file
\* was checked.
C7_Witness ==
    /\ Len(EventsOf("onFoundSinceRevision")) = 1
    /\ EventsOf("onFoundSinceRevision")[1].args[1] = Undefined
    /\ Len(EventsOf("diffSummary")) > 0
    /\ Len(CheckCalls) > 0

\* C8: when the extension-filtered change set is empty strictify returns
\* {success: true, errors: 0} at once; the compiler is not invoked and
\* onCheckFile is not called.
C8_EmptyChangeSetShortCircuits ==
    (HasEmitted /\ Emitted = <<>>) =>
        /\ pc = "returned"
        /\ result = <<[success |-> TRUE, errors |-> 0]>>
        /\ PositionsOf("tsc") = {}
        /\ responses[<<"tsc", 0>>].tag = "none"
        /\ CheckCalls = <<>>

\* What git status and the diff against HEAD answered.
RawStatus ==
    IF responses[<<"status", 0>>].tag = "ok"
    THEN Range(responses[<<"status", 0>>].val.created)
            \cup Range(responses[<<"status", 0>>].val.modified)
            \cup Range(responses[<<"status", 0>>].val.not_added)
    ELSE {}
RawDiff ==
    IF responses[<<"diffSummary", 0>>].tag = "ok"
    THEN Range(responses[<<"diffSummary", 0>>].val)
    ELSE {}

\* Files changed, but none with a supported extension.
C8_Witness ==
    /\ HasEmitted
    /\ Emitted = <<>>
    /\ RawStatus # {}
    /\ RawDiff # {}

\* C9: the list handed to onFoundChangedFiles holds exactly the paths of the
\* working-tree status or of the diff against HEAD that end in .ts or .tsx,
\* each once.
C9_ChangedFilesFilteredAndUnique ==
    HasEmitted =>
        /\ ChangeSet = {p \in RawStatus \cup RawDiff : IsTypeScriptPath(p)}
        /\ Len(Emitted) = Cardinality(ChangeSet)

\* The same TypeScript file is in the working tree status and in the diff.
C9_Witness ==
    /\ HasEmitted
    /\ \E p \in RawStatus \cap RawDiff : IsTypeScriptPath(p)
    /\ Len(Emitted) = 1

\* C10: when the compiler invocation fails for a reason other than
\* diagnostics, strictify rejects: it returns no result and calls no
\* onCheckFile.
C10_OtherCompilerFailureAborts ==
    (/\ responses[<<"tsc", 0>>].tag = "failed"
     /\ responses[<<"tsc", 0>>].val.kind = "other") =>
        /\ pc = "rejected"
        /\ result = <<>>
        /\ CheckCalls = <<>>

-----------------------------------------------------------------------------
\* The number of times an external call was issued.
Attempts(kind, id) ==
    Cardinality({j \in 1..Len(trace) : trace[j].ev = kind /\ trace[j].id = id})

\* C11: whatever git queries fail, steps 1 to 3 never reject: a failed
\* fork-point lookup yields undefined, a failed status or diff query yields no
\* files, and the run reaches onFoundChangedFiles (a rejection can only come
\* from the compiler stage).
C11_GitFailuresNeverReject ==
    /\ pc = "rejected" => HasEmitted /\ Attempts("tsc", 0) = 1
    /\ responses[<<"merge-base", 0>>].tag = "failed" => commit = Undefined
    /\ \A i \in 1..N :
        /\ responses[<<"merge-base", i>>].tag = "failed" => baseCommit[i] = Undefined
        /\ responses[<<"diffSummary", i>>].tag = "failed" => branchFiles[i] = <<>>
    /\ responses[<<"status", 0>>].tag = "failed" => statusFiles = <<>>
    /\ responses[<<"diffSummary", 0>>].tag = "failed" => diffFiles = <<>>
    /\ pc \in {"compile", "returned"} => HasEmitted

\* The part of C11 that holds of the code: with at least one ignore branch,
\* no failure of a git query rejects the run before the compiler stage.
C11_HoldsWithIgnoreBranches == N > 0 => C11_GitFailuresNeverReject

-----------------------------------------------------------------------------
(* What a run must produce, as a function of the answers of git and tsc    *)
(* alone: two runs that get the same answers then produce the same.        *)

\* The paths git reported for the change set, working tree first.
RawChangeList ==
    (IF responses[<<"status", 0>>].tag = "ok"
     THEN responses[<<"status", 0>>].val.created
            \o responses[<<"status", 0>>].val.modified
            \o responses[<<"status", 0>>].val.not_added
     ELSE <<>>)
    \o (IF responses[<<"diffSummary", 0>>].tag = "ok"
        THEN responses[<<"diffSummary", 0>>].val ELSE <<>>)

RECURSIVE Pick(_, _, _)
\* The entries of seq at the positions of keep, from position i on.
Pick(seq, keep, i) ==
    IF i > Len(seq) THEN <<>>
    ELSE (IF i \in keep THEN <<seq[i]>> ELSE <<>>) \o Pick(seq, keep, i + 1)

\* The first occurrence of every TypeScript path of RawChangeList, in order.
ExpectedChangeList ==
    LET raw == RawChangeList
    IN  Pick(raw,
             {i \in 1..Len(raw) :
                /\ IsTypeScriptPath(raw[i])
                /\ \A j \in 1..(i - 1) : raw[j] # raw[i]},
             1)

ExpectedIncludedList ==
    LET excluded == ExclusionSet
        included(f) == f \notin excluded
    IN  SelectSeq(ExpectedChangeList, included)

\* The lines each text of Outputs is made of.
LinesOf == [text \in Outputs |-> CHOOSE ls \in SeqsUpTo(LineSet, MaxLines) : Join(ls) = text]

\* The lines tsc wrote: none after a normal exit.
ExpectedLines ==
    IF responses[<<"tsc", 0>>].tag # "failed" THEN <<>>
    ELSE LinesOf[responses[<<"tsc", 0>>].val.all]

ExpectedErrors ==
    LET changed == ExpectedChangeList
        lines == ExpectedLines
    IN  IF changed = <<>> THEN 0
        ELSE SumCounts(Range(ExpectedIncludedList), lines)

ExpectedResult == [success |-> ExpectedErrors = 0, errors |-> ExpectedErrors]

\* C12: change-set resolution is deterministic: the list handed to
\* onFoundChangedFiles and the returned result are functions of what git (and
\* the compiler) answered, so two runs with the same answers agree.
C12_SameAnswersSameChangeSetAndResult ==
    /\ HasEmitted => Emitted = ExpectedChangeList
    /\ pc = "returned" => result = <<ExpectedResult>>

\* Both the working tree and the diff contributed a file, and diagnostics
\* were counted.
C12_Witness ==
    /\ ReturnedFinal
    /\ Len(Emitted) = 2
    /\ RawStatus # {}
    /\ RawDiff # {}
    /\ result[1].errors > 0

-----------------------------------------------------------------------------
\* The callbacks of Args (lines 76-79) that were invoked, in order.
CallbackNames ==
    {"onFoundSinceRevision", "onFoundChangedFiles", "onExamineFile", "onCheckFile"}
Callbacks == LET is(e) == e.ev \in CallbackNames IN SelectSeq(trace, is)

\* C13: onExamineFile is never invoked, whatever the inputs and outcomes.
C13_OnExamineFileNeverInvoked ==
    \A j \in 1..Len(trace) : trace[j].ev # "onExamineFile"

\* Files were checked, with and without diagnostics, and none was announced
\* through onExamineFile.
C13_Witness ==
    /\ ReturnedFinal
    /\ Len(CheckCalls) = 2
    /\ Len(Callbacks) = 4
    /\ EventsOf("onExamineFile") = <<>>

-----------------------------------------------------------------------------
\* C14: whenever the extension-filtered change set is not empty the compiler
\* is invoked exactly once, however many files are included; when every
\* changed file is excluded it still runs once, no onCheckFile is called and
\* the result is {success: true, errors: 0}.
C14_CompilerRunsOncePerNonEmptyChangeSet ==
    /\ (HasEmitted /\ Emitted # <<>>) => Attempts("tsc", 0) = 1
    /\ (ReturnedFinal /\ IncludedSet = {}) =>
            /\ Attempts("tsc", 0) = 1
            /\ CheckCalls = <<>>
            /\ result = <<[success |-> TRUE, errors |-> 0]>>

\* The only changed file is excluded and tsc reported a diagnostic for it.
C14_Witness ==
    /\ ReturnedFinal
    /\ ChangeSet # {}
    /\ IncludedSet = {}
    /\ \E k \in 1..Len(tscOut) : \E p \in ChangeSet : IsSubstring(p, tscOut[k])

-----------------------------------------------------------------------------
\* The positions of the trace at which an external call was issued.
IssuedAt == {j \in 1..Len(trace) : trace[j].ev \in QueryKinds}
\* The call issued at position j has not answered yet.
InFlight(j) == responses[<<trace[j].ev, trace[j].id>>].tag = "none"
\* The stage of section 4.5 the call issued at position j belongs to.
StageOf(j) ==
    IF trace[j].ev = "tsc" THEN 4
    ELSE IF trace[j].ev = "status" THEN 3
    ELSE IF trace[j].id > 0 THEN 2
    ELSE IF trace[j].ev = "diffSummary" THEN 3
    ELSE 1

\* C15: there is no cross-stage concurrency.  Once a call of a later stage has
\* been issued, every call of an earlier stage has answered: the exclusion
\* queries wait for the fork point of HEAD, the change-set queries for every
\* per-branch exclusion query, the compiler for both change-set queries.
\* Only calls of one stage are in flight together.
C15_NoCrossStageConcurrency ==
    LET issued == IssuedAt
        inFlight == {j \in issued : InFlight(j)}
    IN  /\ \A j, k \in issued : StageOf(j) < StageOf(k) => j < k /\ j \notin inFlight
        /\ \A j, k \in inFlight : StageOf(j) = StageOf(k)
        /\ (\E k \in issued : StageOf(k) >= 3) => \A i \in 1..N : branchPc[i] = "done"

\* git status and the diff against HEAD are in flight together, after the
\* queries of two ignore branches have all answered.
C15_Witness ==
    /\ N = 2
    /\ \A i \in 1..N : responses[<<"diffSummary", i>>].tag # "none"
    /\ \E j, k \in IssuedAt :
        /\ trace[j].ev = "status" /\ InFlight(j)
        /\ trace[k].ev = "diffSummary" /\ trace[k].id = 0 /\ InFlight(k)

-----------------------------------------------------------------------------
\* C16: for every ignore branch, under every interleaving, the diff query of
\* the branch is issued only after the branch's own fork-point lookup has
\* answered, with that answer as base and the branch as head; never with the
\* base of another branch or of HEAD.
C16_BranchDiffUsesOwnForkPoint ==
    \A j \in 1..Len(trace) :
        (trace[j].ev = "diffSummary" /\ trace[j].id > 0) =>
            LET i == trace[j].id IN
            /\ i \in 1..N
            /\ responses[<<"merge-base", i>>].tag = "ok"
            /\ trace[j].args = <<responses[<<"merge-base", i>>].val,
                                 ignoreFilesChangedOnBranch[i]>>
            /\ \E k \in 1..(j - 1) : trace[k].ev = "merge-base" /\ trace[k].id = i
            /\ \A k \in 1..Len(trace) :
                (k # j /\ trace[k].ev = "diffSummary" /\ trace[k].id # i)
                    => trace[k].args[1] # trace[j].args[1]

\* The lookup of the second ignore branch answered before that of the first,
\* so the diff queries were issued in the opposite order; HEAD has a fork
\* point of its own.
C16_Witness ==
    /\ N = 2
    /\ commit # Undefined
    /\ \E j, k \in 1..Len(trace) :
        /\ j < k
        /\ trace[j].ev = "diffSummary" /\ trace[j].id = 2
        /\ trace[k].ev = "diffSummary" /\ trace[k].id = 1
    /\ Attempts("diffSummary", 0) = 1

-----------------------------------------------------------------------------
-----------------------------------------------------------------------------
-----------------------------------------------------------------------------
\* diffFiles(forkPoint(B, targetBranch), B) of the i-th ignore branch as a
\* list, and the lists of the branches 1..i one after the other.
BranchDiffList(i) ==
    IF /\ responses[<<"merge-base", i>>].tag = "ok"
       /\ responses[<<"diffSummary", i>>].tag = "ok"
    THEN responses[<<"diffSummary", i>>].val
    ELSE <<>>
RECURSIVE BranchDiffLists(_)
BranchDiffLists(i) == IF i = 0 THEN <<>> ELSE BranchDiffLists(i - 1) \o BranchDiffList(i)

\* The callbacks a run that returned must have made, from the answers alone.
ExpectedCallbacks ==
    << <<"onFoundSinceRevision",
         <<IF responses[<<"merge-base", 0>>].tag = "ok"
           THEN responses[<<"merge-base", 0>>].val ELSE Undefined>> >>,
       <<"onFoundChangedFiles", <<ExpectedChangeList>> >> >>
    \o (IF ExpectedChangeList = <<>> THEN <<>>
        ELSE LET included == ExpectedIncludedList
                 lines == ExpectedLines
             IN  [k \in 1..Len(included) |->
                    <<"onCheckFile",
                      <<included[k], CountFor(included[k], lines) > 0>> >>])

\* C19: the outcome does not depend on the order in which the concurrent
\* queries of a stage answer.  Under every interleaving the exclusion set,
\* the reported list (working-tree files before diff files), the sequence of
\* callbacks and the result are the ones the answers determine.
C19_OutcomeIndependentOfCompletionOrder ==
    /\ Attempts("status", 0) > 0 =>
            /\ excludedFiles = BranchDiffLists(N)
            /\ Range(excludedFiles) = ExclusionSet
    /\ HasEmitted => Emitted = ExpectedChangeList
    /\ pc = "returned" =>
            /\ LET made == Callbacks
               IN  [k \in 1..Len(made) |-> <<made[k].ev, made[k].args>>]
                        = ExpectedCallbacks
            /\ result = <<ExpectedResult>>

\* The lookup of the second ignore branch answered before that of the first,
\* both change-set queries reported a file, and two files were checked.
C19_Witness ==
    /\ ReturnedFinal
    /\ N = 2
    /\ \E j, k \in 1..Len(trace) :
        /\ j < k
        /\ trace[j].ev = "diffSummary" /\ trace[j].id = 2
        /\ trace[k].ev = "diffSummary" /\ trace[k].id = 1
    /\ RawStatus # {}
    /\ RawDiff # {}
    /\ Len(CheckCalls) = 2

-----------------------------------------------------------------------------
\* The files notified through onCheckFile with hasErrors = true.
FilesWithErrors ==
    {CheckCalls[k].args[1] : k \in {j \in 1..Len(CheckCalls) : CheckCalls[j].args[2]}}

\* C20: in every run that returns a result, success is true exactly when no
\* onCheckFile call was made with hasErrors = true, and the number of files
\* notified with hasErrors = true is at most the returned errors.
C20_SuccessIffNoFileHasErrors ==
    pc = "returned" =>
        /\ result[1].success <=> FilesWithErrors = {}
        /\ Cardinality(FilesWithErrors) <= result[1].errors

\* One file has diagnostics on two lines: one file with errors, errors = 2;
\* another file has none.
C20_Witness ==
    /\ ReturnedFinal
    /\ Cardinality(FilesWithErrors) = 1
    /\ Cardinality(CheckedFiles) = 2
    /\ result[1].errors = 2
    /\ ~result[1].success

====
